---- MODULE Spec2Model ----
(***************************************************************************)
(* Model of kattis-util: the RequestCache (src/kattis.py, and its copy     *)
(* ResponseCache in src/response_cache.py) and the login/session part of   *)
(* the Kattis facade that is built on it.                                  *)
(*                                                                         *)
(* A requests.Request is a plain Python object: the class defines neither  *)
(* __eq__ nor __hash__, so as a dict key it is compared by object          *)
(* identity.  A request object is therefore modelled as an identity (a     *)
(* number) whose fields live in `heap`; the cache is a mapping from        *)
(* identities to responses.                                                *)
(***************************************************************************)
EXTENDS Integers, Sequences, FiniteSets, TLC

(* ------------------------------ bounds --------------------------------- *)

\* requests the caller constructs and keeps a reference to
MaxHeld == 2
\* network calls in one behaviour
MaxNet == 2
\* threads that share one Kattis object
NThreads == 2

(* ------------------------- values and inputs --------------------------- *)

\* Python's None
None == "None"

\* Kattis.HEADERS
HEADERS == [k \in {"User-Agent"} |-> "kattis-cli-submit"]

\* an empty dict ({} for data / params, the default headers of Request())
EmptyDict == [k \in {} |-> ""]

\* URLs the caller passes to get() / Request()
Urls == {"https://open.kattis.com/problems"}

\* cookie jars a server may set on a 200 response
CookieJars == {"jarA", "jarB"}

\* status codes the stubbed transport answers with
Statuses == {200, 403, 404, 500}

\* what one call of Session.send can do: raise, or return a response
TransportError == [raises |-> TRUE, status |-> 0, cookies |-> None]

\* the answers to a request the caller or get() sends
GetOutcomes == {TransportError, [raises |-> FALSE, status |-> 200, cookies |-> None]}

\* the answers to a login request
TransportOutcomes ==
    {TransportError}
    \cup {[raises |-> FALSE, status |-> 200, cookies |-> j] : j \in CookieJars}
    \cup {[raises |-> FALSE, status |-> s, cookies |-> None] : s \in Statuses \ {200}}

\* "no response" and "no exception" placeholders of the operation records
NoResp == [rid |-> 0, status |-> 0, cookies |-> None]

NoExc == [cls |-> None, msg |-> ""]

\* the Response object the transport returns on its n-th call
Response(n, t) == [rid |-> n, status |-> t.status, cookies |-> t.cookies]

(* --------------------------- configuration ----------------------------- *)

\* a loaded ConfigParser: the options that are present, (section, option) -> value
BaseConfig ==
    (<<"kattis", "hostname">> :> "open.kattis.com")
    @@ (<<"user", "username">> :> "bob")

OptionalConfig(present) ==
    [k \in present |->
        IF k = <<"user", "password">> THEN "pw"
        ELSE IF k = <<"user", "token">> THEN "tk"
        ELSE "https://x/custom-login"]

Configs ==
    {BaseConfig @@ OptionalConfig(p) :
        p \in {{}, {<<"user", "password">>},
               {<<"user", "password">>, <<"user", "token">>, <<"kattis", "loginurl">>}}}

\* Kattis.get_cfg
get_cfg(cfg, option, default, section) ==
    IF <<section, option>> \in DOMAIN cfg THEN cfg[<<section, option>>] ELSE default

\* get_url that lets a hostname passed by the caller win over the option
get_url_hostname_first(cfg, option, default, section, hostname) ==
    IF hostname = None
    THEN IF <<section, option>> \in DOMAIN cfg THEN cfg[<<section, option>>]
         ELSE "https://" \o cfg[<<section, "hostname">>] \o "/" \o default
    ELSE "https://" \o hostname \o "/" \o default

\* Kattis.get_url
get_url(cfg, option, default, section, hostname) ==
    LET h == IF hostname = None THEN cfg[<<section, "hostname">>] ELSE hostname
    IN  get_cfg(cfg, option, "https://" \o h \o "/" \o default, section)

\* Kattis.username / password / token
username(cfg) == cfg[<<"user", "username">>]

password(cfg) == get_cfg(cfg, "password", None, "user")

token(cfg) == get_cfg(cfg, "token", None, "user")

\* Kattis.login_url
login_url(cfg) == get_url(cfg, "loginurl", "login", "kattis", None)

(* ------------------------------ requests ------------------------------- *)

\* the fields of requests.Request(method, url, headers, data, params, cookies)
Request(method, url, headers, data, params, cookies) ==
    [method |-> method, url |-> url, headers |-> headers,
     data |-> data, params |-> params, cookies |-> cookies]

\* login_request with the check of the credentials left out
login_request_raises_unchecked(cfg) == FALSE

\* Kattis.login_request raises cli.ConfigError
login_request_raises(cfg) == password(cfg) = None /\ token(cfg) = None

ConfigError == [cls |-> "ConfigError", msg |-> "password and token both missing"]

\* login_request that sends the token only when there is no password
login_request_password_or_token(cfg) ==
    LET keys == {"user", "script"}
                \cup (IF <<"user", "password">> \in DOMAIN cfg THEN {"password"}
                      ELSE IF <<"user", "token">> \in DOMAIN cfg THEN {"token"} ELSE {})
        data == [k \in keys |->
                    IF k = "user" THEN cfg[<<"user", "username">>]
                    ELSE IF k = "script" THEN "true"
                    ELSE cfg[<<"user", k>>]]
    IN  [method |-> "post", url |-> login_url(cfg), headers |-> HEADERS,
         data |-> data, params |-> EmptyDict, cookies |-> None]

\* Kattis.login_request: the fields of the Request it builds
login_request(cfg) ==
    LET keys == {"user", "script"}
                \cup (IF password(cfg) # None THEN {"password"} ELSE {})
                \cup (IF token(cfg) # None THEN {"token"} ELSE {})
        data == [k \in keys |->
                    IF k = "user" THEN username(cfg)
                    ELSE IF k = "script" THEN "true"
                    ELSE IF k = "password" THEN password(cfg)
                    ELSE token(cfg)]
    IN  Request("post", login_url(cfg), HEADERS, data, EmptyDict, None)

\* the Request Kattis.get builds, given the session cookies
get_request(url, cookies) == Request("get", url, HEADERS, EmptyDict, EmptyDict, cookies)

\* requests the caller constructs directly
CallerRequests ==
    {get_request(u, c) : u \in Urls, c \in {None, "jarA"}}

\* the message of a transport-level error is opaque
TransportException == [cls |-> "TransportError", msg |-> ""]

(* ---------------------------- RequestCache ----------------------------- *)

\* RequestCache.__init__
EmptyCache == [k \in {} |-> NoResp]

\* RequestCache.__contains__: dict membership of the request object
contains(c, r) == r \in DOMAIN c

\* invalidate that leaves the entry where it is
invalidate_keeping(c, r) == c

\* invalidate that empties the cache
invalidate_all(c, r) == EmptyCache

\* RequestCache.invalidate: dict.pop(req, None)
invalidate(c, r) == [k \in DOMAIN c \ {r} |-> c[k]]

\* self.cache[req] = resp
store(c, r, resp) == [k \in DOMAIN c \cup {r} |-> IF k = r THEN resp ELSE c[k]]

\* send that serves a cached entry also when use_cached is false
send_never_bypassing(c, r, use_cached, t, n) ==
    IF r \notin DOMAIN c
    THEN IF t.raises
         THEN [cache |-> c, net |-> 1,
               exc |-> TransportException, ret |-> NoResp]
         ELSE [cache |-> [k \in DOMAIN c \cup {r} |-> IF k = r THEN Response(n, t) ELSE c[k]],
               net |-> 1, exc |-> NoExc, ret |-> Response(n, t)]
    ELSE [cache |-> c, net |-> 0, exc |-> NoExc, ret |-> c[r]]

\* send that drops the entry before it calls the transport
send_dropping_first(c, r, use_cached, t, n) ==
    IF ~use_cached \/ r \notin DOMAIN c
    THEN IF t.raises
         THEN [cache |-> [k \in DOMAIN c \ {r} |-> c[k]], net |-> 1,
               exc |-> TransportException, ret |-> NoResp]
         ELSE [cache |-> [k \in DOMAIN c \cup {r} |-> IF k = r THEN Response(n, t) ELSE c[k]],
               net |-> 1, exc |-> NoExc, ret |-> Response(n, t)]
    ELSE [cache |-> c, net |-> 0, exc |-> NoExc, ret |-> c[r]]

\* RequestCache.send with the transport doing t on its n-th call:
\* the cache afterwards, the network calls made, the exception, the value returned
send(c, r, use_cached, t, n) ==
    IF ~use_cached \/ ~contains(c, r)
    THEN IF t.raises
         THEN [cache |-> c, net |-> 1,
               exc |-> TransportException, ret |-> NoResp]
         ELSE [cache |-> store(c, r, Response(n, t)), net |-> 1,
               exc |-> NoExc, ret |-> store(c, r, Response(n, t))[r]]
    ELSE [cache |-> c, net |-> 0, exc |-> NoExc, ret |-> c[r]]

(* -------------------------- Kattis: the session ------------------------ *)

\* login that has no branch of its own for status 404
login_without_404(cfg, c, r, use_cached, t, n) ==
    IF password(cfg) = None /\ token(cfg) = None
    THEN [cache |-> c, net |-> 0, exc |-> ConfigError, ret |-> NoResp]
    ELSE LET s == send(c, r, use_cached, t, n)
         IN  IF s.exc # NoExc THEN s
             ELSE IF s.ret.status = 403
             THEN [s EXCEPT !.ret = NoResp,
                            !.exc = [cls |-> "Exception",
                                     msg |-> "403: bad credentials for " \o username(cfg)]]
             ELSE IF s.ret.status # 200
             THEN [s EXCEPT !.ret = NoResp,
                            !.exc = [cls |-> "Exception",
                                     msg |-> "login failed with status "
                                             \o ToString(s.ret.status)]]
             ELSE s

\* Kattis.login, r being the request object self.login_request has just built:
\* the result of send, classified by the status of the response
login(cfg, c, r, use_cached, t, n) ==
    IF login_request_raises(cfg)
    THEN [cache |-> c, net |-> 0, exc |-> ConfigError, ret |-> NoResp]
    ELSE LET s == send(c, r, use_cached, t, n)
         IN  IF s.exc # NoExc THEN s
             ELSE IF s.ret.status = 403
             THEN [s EXCEPT !.ret = NoResp,
                            !.exc = [cls |-> "Exception",
                                     msg |-> "403: bad credentials for " \o username(cfg)]]
             ELSE IF s.ret.status = 404
             THEN [s EXCEPT !.ret = NoResp,
                            !.exc = [cls |-> "Exception",
                                     msg |-> "404: incorrect login URL " \o login_url(cfg)]]
             ELSE IF s.ret.status # 200
             THEN [s EXCEPT !.ret = NoResp,
                            !.exc = [cls |-> "Exception",
                                     msg |-> "login failed with status "
                                             \o ToString(s.ret.status)]]
             ELSE s

\* Kattis.is_logged_in, r being the request object self.login_request has just built
is_logged_in(cfg, c, r) ==
    IF login_request_raises(cfg)
    THEN [exc |-> ConfigError, bool |-> FALSE]
    ELSE [exc |-> NoExc, bool |-> contains(c, r)]

\* Kattis.logout, r being the request object self.login_request has just built
logout(cfg, c, r) ==
    IF login_request_raises(cfg)
    THEN [cache |-> c, exc |-> ConfigError]
    ELSE [cache |-> invalidate(c, r), exc |-> NoExc]

\* get that sends the GET request, without cookies, also when login has failed
get_sending_anyway(cfg, c, r1, r2, url, use_cached, t1, t2, n) ==
    LET l == login(cfg, c, r1, TRUE, t1, n)
    IN  IF l.exc # NoExc
        THEN LET g == send(l.cache, r2, use_cached, t2, n + l.net)
             IN  [cache |-> g.cache, net |-> l.net + g.net, loginNet |-> l.net,
                  exc |-> l.exc, ret |-> NoResp,
                  fields |-> get_request(url, None), sent |-> FALSE]
        ELSE LET g == send(l.cache, r2, use_cached, t2, n + l.net)
             IN  [cache |-> g.cache, net |-> l.net + g.net, loginNet |-> l.net,
                  exc |-> g.exc, ret |-> g.ret,
                  fields |-> get_request(url, l.ret.cookies), sent |-> TRUE]

\* Kattis.get: r1 is the login request object built for self.cookies, r2 the GET
\* request object; t1 and t2 are what the transport does for each
get(cfg, c, r1, r2, url, use_cached, t1, t2, n) ==
    LET l == login(cfg, c, r1, TRUE, t1, n)
    IN  IF l.exc # NoExc
        THEN [cache |-> l.cache, net |-> l.net, loginNet |-> l.net, exc |-> l.exc,
              ret |-> NoResp, fields |-> get_request(url, None), sent |-> FALSE]
        ELSE LET g == send(l.cache, r2, use_cached, t2, n + l.net)
             IN  [cache |-> g.cache, net |-> l.net + g.net, loginNet |-> l.net,
                  exc |-> g.exc, ret |-> g.ret,
                  fields |-> get_request(url, l.ret.cookies), sent |-> TRUE]

(* ------------------------------- state --------------------------------- *)

VARIABLES
    config,     \* Kattis.config
    heap,       \* the live request objects: identity -> fields
    held,       \* identities of the requests the caller keeps a reference to
    cache,      \* RequestCache.cache: request identity -> Response
    netCount,   \* network calls made so far
    loginNet,   \* network calls made by login() so far
    invalidations,  \* logout() and login(use_cached=False) calls so far
    loginFailed,    \* some login network call raised or did not answer 200
    last,       \* record of the operation that ran last; for invalidate, bool
                \* tells whether the entry was there, for get, whether login passed
    prev,       \* the operation before it: its name, request and outcome
    threads,    \* the threads that call login() at the same time: where each is
    call        \* the last call of a function that touches no state, with its result

vars == <<config, heap, held, cache, netCount, loginNet, invalidations, loginFailed,
          last, prev, threads, call>>

\* the threads of a program that shares one Kattis object
Threads == 1 .. NThreads

\* a thread that has not called login() yet
IdleThread == [pc |-> "idle", req |-> 0, n |-> 0, resp |-> NoResp, exc |-> NoExc]

\* no function has been called yet
NoCall == [fn |-> "none"]

\* identities: enough for the held requests, the cache keys and two temporaries
Ids == 1 .. (MaxHeld + MaxNet + 2)

\* the identity of a newly allocated object: one that no live object has
Fresh(live) == CHOOSE i \in Ids \ live : \A j \in Ids \ live : i <= j

FreshId == Fresh(DOMAIN heap)

\* the heap once temporaries are dropped: the caller's requests and the cache keys
Collect(h, c) == [i \in DOMAIN h \cap (held \cup DOMAIN c) |-> h[i]]

NoOp ==
    [op |-> "init", req |-> 0, fields |-> get_request("", None), use_cached |-> TRUE,
     net |-> 0, exc |-> NoExc, ret |-> NoResp, bool |-> FALSE, status |-> 0,
     before |-> EmptyCache]

\* what is remembered of the operation before the last one
Strip(rec) == [op |-> rec.op, req |-> rec.req, ok |-> rec.exc = NoExc, bool |-> rec.bool]

\* the status of the response the cache holds for r, 0 when it holds none
StatusOf(c, r) == IF r \in DOMAIN c THEN c[r].status ELSE 0

\* the count of invalidating calls, counted up to MaxNet - 1 (where it has
\* outgrown every possible count of network calls)
Bump(k) == IF k < MaxNet - 1 THEN k + 1 ELSE k

Init ==
    /\ config \in Configs
    /\ heap = [i \in {} |-> get_request("", None)]
    /\ held = {}
    /\ cache = EmptyCache
    /\ netCount = 0
    /\ loginNet = 0
    /\ invalidations = 0
    /\ loginFailed = FALSE
    /\ last = NoOp
    /\ prev = Strip(NoOp)
    /\ threads = [t \in Threads |-> IdleThread]
    /\ call = NoCall

\* the state a unit test of RequestCache starts in
InitCache == Init /\ config = BaseConfig @@ OptionalConfig({<<"user", "password">>})

(* --------------------- the caller using RequestCache -------------------- *)

\* req = Request(...): the caller constructs a request and keeps it
NewRequest(f) ==
    /\ Cardinality(held) < MaxHeld
    /\ heap' = (FreshId :> f) @@ heap
    /\ held' = held \cup {FreshId}
    /\ prev' = Strip(last)
    /\ last' = [NoOp EXCEPT !.op = "new", !.req = FreshId, !.fields = f, !.before = cache]
    /\ UNCHANGED <<threads, call, config, cache, netCount, loginNet, invalidations, loginFailed>>

\* req in cache
CacheContains(r) ==
    /\ r \in held
    /\ prev' = Strip(last)
    /\ last' = [NoOp EXCEPT !.op = "contains", !.req = r, !.fields = heap[r],
                            !.bool = contains(cache, r), !.before = cache]
    /\ UNCHANGED <<threads, call, config, heap, held, cache, netCount, loginNet, invalidations,
                   loginFailed>>

\* cache.invalidate(req)
CacheInvalidate(r) ==
    /\ r \in held
    /\ cache' = invalidate(cache, r)
    /\ prev' = Strip(last)
    /\ last' = [NoOp EXCEPT !.op = "invalidate", !.req = r, !.fields = heap[r],
                            !.bool = contains(cache, r), !.before = cache]
    /\ UNCHANGED <<threads, call, config, heap, held, netCount, loginNet, invalidations, loginFailed>>

\* cache.send(req, use_cached)
CacheSend(r, use_cached, t) ==
    /\ r \in held
    /\ LET s == send(cache, r, use_cached, t, netCount + 1)
       IN  /\ netCount + s.net <= MaxNet
           /\ cache' = s.cache
           /\ netCount' = netCount + s.net
           /\ prev' = Strip(last)
           /\ last' = [NoOp EXCEPT !.op = "send", !.req = r, !.fields = heap[r],
                                   !.use_cached = use_cached, !.net = s.net,
                                   !.exc = s.exc, !.ret = s.ret,
                                   !.status = s.ret.status, !.before = cache]
    /\ UNCHANGED <<threads, call, config, heap, held, loginNet, invalidations, loginFailed>>

(* ------------------------ the caller using Kattis ----------------------- *)

\* kattis.login(use_cached)
Login(use_cached, t) ==
    LET r == FreshId
        l == login(config, cache, r, use_cached, t, netCount + 1)
    IN  /\ netCount + l.net <= MaxNet
        /\ cache' = l.cache
        /\ heap' = Collect((r :> login_request(config)) @@ heap, l.cache)
        /\ netCount' = netCount + l.net
        /\ loginNet' = loginNet + l.net
        /\ invalidations' = IF use_cached THEN invalidations ELSE Bump(invalidations)
        /\ loginFailed' = (loginFailed \/ (l.net > 0 /\ l.exc # NoExc))
        /\ prev' = Strip(last)
        /\ last' = [NoOp EXCEPT !.op = "login", !.req = r,
                                !.fields = login_request(config),
                                !.use_cached = use_cached, !.net = l.net,
                                !.exc = l.exc, !.ret = l.ret,
                                !.status = StatusOf(l.cache, r), !.before = cache]
        /\ UNCHANGED <<threads, call, config, held>>

\* kattis.cookies: the cookies of login(use_cached=True)
Cookies(t) ==
    LET r == FreshId
        l == login(config, cache, r, TRUE, t, netCount + 1)
    IN  /\ netCount + l.net <= MaxNet
        /\ cache' = l.cache
        /\ heap' = Collect((r :> login_request(config)) @@ heap, l.cache)
        /\ netCount' = netCount + l.net
        /\ loginNet' = loginNet + l.net
        /\ loginFailed' = (loginFailed \/ (l.net > 0 /\ l.exc # NoExc))
        /\ prev' = Strip(last)
        /\ last' = [NoOp EXCEPT !.op = "cookies", !.req = r,
                                !.fields = login_request(config),
                                !.net = l.net, !.exc = l.exc, !.ret = l.ret,
                                !.status = StatusOf(l.cache, r), !.before = cache]
        /\ UNCHANGED <<threads, call, config, held, invalidations>>

\* kattis.is_logged_in()
IsLoggedIn ==
    LET r == FreshId
        b == is_logged_in(config, cache, r)
    IN  /\ prev' = Strip(last)
        /\ last' = [NoOp EXCEPT !.op = "is_logged_in", !.req = r,
                                !.fields = login_request(config),
                                !.exc = b.exc, !.bool = b.bool, !.before = cache]
        /\ UNCHANGED <<threads, call, config, heap, held, cache, netCount, loginNet, invalidations,
                       loginFailed>>

\* kattis.logout()
Logout ==
    LET r == FreshId
        o == logout(config, cache, r)
    IN  /\ cache' = o.cache
        /\ heap' = Collect(heap, o.cache)
        /\ invalidations' = IF o.exc = NoExc THEN Bump(invalidations) ELSE invalidations
        /\ prev' = Strip(last)
        /\ last' = [NoOp EXCEPT !.op = "logout", !.req = r,
                                !.fields = login_request(config),
                                !.exc = o.exc, !.before = cache]
        /\ UNCHANGED <<threads, call, config, held, netCount, loginNet, loginFailed>>

\* kattis.get(url, use_cached=use_cached)
Get(url, use_cached, t1, t2) ==
    LET r1 == FreshId
        r2 == Fresh(DOMAIN heap \cup {r1})
        g == get(config, cache, r1, r2, url, use_cached, t1, t2, netCount + 1)
    IN  /\ netCount + g.net <= MaxNet
        /\ cache' = g.cache
        /\ heap' = Collect((r1 :> login_request(config)) @@ (r2 :> g.fields) @@ heap,
                           g.cache)
        /\ netCount' = netCount + g.net
        /\ loginNet' = loginNet + g.loginNet
        /\ loginFailed' = (loginFailed \/ (g.loginNet > 0 /\ ~g.sent))
        /\ prev' = Strip(last)
        /\ last' = [NoOp EXCEPT !.op = "get", !.req = r2, !.fields = g.fields,
                                !.use_cached = use_cached, !.net = g.net,
                                !.exc = g.exc, !.ret = g.ret, !.bool = g.sent,
                                !.status = StatusOf(g.cache, r1), !.before = cache]
        /\ UNCHANGED <<threads, call, config, held, invalidations>>

(* ---------------------------- specifications ---------------------------- *)

\* a caller of the Kattis facade
Next ==
    \/ \E u \in BOOLEAN, t \in TransportOutcomes : Login(u, t)
    \/ \E t \in TransportOutcomes : Cookies(t)
    \/ IsLoggedIn
    \/ Logout
    \/ \E url \in Urls, u \in BOOLEAN, t1 \in TransportOutcomes, t2 \in GetOutcomes :
          Get(url, u, t1, t2)

Spec == Init /\ [][Next]_vars

\* a caller of the RequestCache alone
NextCache ==
    \/ \E f \in CallerRequests : NewRequest(f)
    \/ \E r \in Ids : CacheContains(r)
    \/ \E r \in Ids : CacheInvalidate(r)
    \/ \E r \in Ids, u \in BOOLEAN, t \in GetOutcomes : CacheSend(r, u, t)

SpecCache == InitCache /\ [][NextCache]_vars

(* ------------------------- claims: RequestCache ------------------------- *)

\* the caller's last two operations were on the request objects a then b
Consecutive(opa, opb) == prev.op = opa /\ last.op = opb

\* C1: for two separately constructed requests with identical method, URL,
\* headers, body, params and cookies, send(r1) followed by send(r2,
\* use_cached=True) makes one network call in all (the second send makes none)
\* and both calls return the same response object.
C1_CacheIdentity ==
    (/\ Consecutive("send", "send")
     /\ prev.ok
     /\ last.use_cached
     /\ last.req # prev.req
     /\ heap[last.req] = heap[prev.req])
    => (/\ last.net = 0
        /\ last.exc = NoExc
        /\ last.ret = last.before[prev.req])

\* C5: send(r, use_cached=False) always makes a network call, whether or not r
\* has an entry; when the transport answers, the cache holds for r the one
\* entry it had or gets (no other key appears or disappears), its value is the
\* response just received, which no entry held before, and send returns it.
C5_BypassForcesRefresh ==
    (last.op = "send" /\ ~last.use_cached)
    => (/\ last.net = 1
        /\ last.exc = NoExc
           => (/\ DOMAIN cache = DOMAIN last.before \cup {last.req}
               /\ cache[last.req] = last.ret
               /\ last.ret.rid = netCount
               /\ \A k \in DOMAIN last.before :
                     /\ last.before[k] # last.ret
                     /\ k # last.req => cache[k] = last.before[k]))

\* a bypass send has replaced the entry r already had
C5_Witness ==
    /\ last.op = "send"
    /\ ~last.use_cached
    /\ last.exc = NoExc
    /\ last.req \in DOMAIN last.before
    /\ cache[last.req] # last.before[last.req]

\* C6: after invalidate(r), `r in cache` is false; a send(r, use_cached=True)
\* that follows makes a network call and, when the transport answers, stores
\* the response, so that `r in cache` is true again.
C6_InvalidateThenSend ==
    /\ last.op = "invalidate" => ~contains(cache, last.req)
    /\ (Consecutive("invalidate", "contains") /\ last.req = prev.req) => ~last.bool
    /\ (Consecutive("invalidate", "send") /\ last.req = prev.req /\ last.use_cached)
       => (/\ last.net = 1
           /\ last.exc = NoExc
              => (/\ contains(cache, last.req)
                  /\ cache[last.req] = last.ret
                  /\ last.ret.rid = netCount))

\* an entry that was there has been invalidated and then sent again
C6_Witness ==
    /\ Consecutive("invalidate", "send")
    /\ prev.bool
    /\ last.req = prev.req
    /\ last.use_cached
    /\ last.exc = NoExc
    /\ contains(cache, last.req)

\* C7: when the transport raises during send(r, use_cached), the caller gets
\* the transport's error and the cache is exactly what it was before the call;
\* a following send(r, use_cached=True) for an r without entry calls the
\* network again.
C7_FailuresNeverCached ==
    /\ (last.op = "send" /\ last.exc # NoExc)
       => (/\ last.exc = TransportException
           /\ last.net = 1
           /\ cache = last.before)
    /\ (/\ Consecutive("send", "send")
        /\ ~prev.ok
        /\ last.req = prev.req
        /\ last.use_cached
        /\ last.req \notin DOMAIN last.before)
       => last.net = 1

\* a bypass send for a request that has an entry has failed
C7_Witness ==
    /\ last.op = "send"
    /\ ~last.use_cached
    /\ last.exc = TransportException
    /\ last.req \in DOMAIN last.before
    /\ last.req \in DOMAIN cache

(* ---------------------------- claims: session --------------------------- *)

\* some key of the cache c is a request with the fields of the login request
LoginRequestCached(c) == \E r \in DOMAIN c : heap[r] = login_request(config)

\* C2: is_logged_in() is true iff the login request is present in the cache,
\* and the is_logged_in() that follows a login() whose response had status 200
\* is true.
C2_LoginEstablishesAuthenticated ==
    /\ (last.op = "is_logged_in" /\ last.exc = NoExc)
       => (last.bool <=> LoginRequestCached(last.before))
    /\ (Consecutive("login", "is_logged_in") /\ prev.ok) => last.bool

\* C3: is_logged_in() is true after a successful login() and false after a
\* logout(); logout() makes no network call; the access to cookies that follows
\* a logout() makes exactly one login network call.
C3_LogoutClearsState ==
    /\ (Consecutive("login", "is_logged_in") /\ prev.ok /\ last.exc = NoExc) => last.bool
    /\ (Consecutive("logout", "is_logged_in") /\ prev.ok) => ~last.bool
    /\ last.op = "logout" => (last.net = 0 /\ ~LoginRequestCached(cache))
    /\ (Consecutive("logout", "cookies") /\ prev.ok) => last.net = 1

\* C4: with every login answered by 200, the login network calls number at
\* most 1 plus the logout() and login(use_cached=False) calls; so the second of
\* two consecutive accesses to cookies makes no network call.
C4_LoginOnlyAfterInvalidation ==
    /\ ~loginFailed => loginNet <= 1 + invalidations
    /\ (Consecutive("cookies", "cookies") /\ prev.ok) => last.net = 0

\* the error login() raises for a response of status s
LoginErrorFor(s) ==
    IF s = 403 THEN [cls |-> "Exception", msg |-> "403: bad credentials for bob"]
    ELSE IF s = 404
    THEN [cls |-> "Exception",
          msg |-> IF <<"kattis", "loginurl">> \in DOMAIN config
                  THEN "404: incorrect login URL https://x/custom-login"
                  ELSE "404: incorrect login URL https://open.kattis.com/login"]
    ELSE IF s = 500 THEN [cls |-> "Exception", msg |-> "login failed with status 500"]
    ELSE NoExc

\* the error type the taxonomy of errors gives a login response of status s
ClaimedErrorTypes(s) ==
    IF s = 403 THEN {"AuthenticationError"}
    ELSE IF s = 404 THEN {"EndpointError", "ConfigError"}
    ELSE {"LoginError"}

NoCredentials ==
    /\ <<"user", "password">> \notin DOMAIN config
    /\ <<"user", "token">> \notin DOMAIN config

\* C9: with neither user.password nor user.token configured, login(), cookies
\* and get() fail with the ConfigError of login_request, make no network call
\* and leave the cache as it was.
C9_MissingCredentials ==
    (NoCredentials /\ last.op \in {"login", "cookies", "get"})
    => (/\ last.exc = ConfigError
        /\ last.net = 0
        /\ netCount = 0
        /\ cache = last.before)

\* get() has failed for want of credentials
C9_Witness ==
    /\ NoCredentials
    /\ last.op = "get"
    /\ last.exc = ConfigError
    /\ prev.op = "login"

\* C10: two requests are the same cache key iff method, URL, headers, body,
\* params and cookies all match: no two entries of the cache are for requests
\* with the same fields, and requests with different cookies have entries of
\* their own.
C10_CookiesPartOfIdentity ==
    \A r1, r2 \in DOMAIN cache : (heap[r1] = heap[r2]) <=> (r1 = r2)

(* ------------------- threads calling login() together ------------------ *)

\* the state in which the threads of a program start to share a Kattis object
InitConc == InitCache

\* what a thread step leaves alone
ThreadFrame == UNCHANGED <<config, held, invalidations, loginFailed, last, prev, call>>

\* self.login_request, evaluated by thread t for its login(use_cached=True)
ThreadBuild(t) ==
    /\ threads[t].pc = "idle"
    /\ IF login_request_raises(config)
       THEN /\ threads' = [threads EXCEPT ![t].pc = "done", ![t].exc = ConfigError]
            /\ heap' = heap
       ELSE /\ threads' = [threads EXCEPT ![t].pc = "built", ![t].req = FreshId]
            /\ heap' = (FreshId :> login_request(config)) @@ heap
    /\ UNCHANGED <<cache, netCount, loginNet>>
    /\ ThreadFrame

\* a send whose test waits until no other thread is between its test and its store
ThreadCheck_serialised(t) ==
    /\ threads[t].pc = "built"
    /\ \A o \in Threads \ {t} : threads[o].pc \notin {"missed", "sending", "received"}
    /\ threads' = [threads EXCEPT ![t].pc =
                      IF ~TRUE \/ ~contains(cache, threads[t].req) THEN "missed" ELSE "hit"]
    /\ UNCHANGED <<heap, cache, netCount, loginNet>>
    /\ ThreadFrame

\* RequestCache.send in thread t: the test `not use_cached or req not in self`
ThreadCheck(t) ==
    /\ threads[t].pc = "built"
    /\ threads' = [threads EXCEPT ![t].pc =
                      IF ~TRUE \/ ~contains(cache, threads[t].req) THEN "missed" ELSE "hit"]
    /\ UNCHANGED <<heap, cache, netCount, loginNet>>
    /\ ThreadFrame

\* RequestCache.send in thread t: requests.session().send(...) is called
ThreadIssue(t) ==
    /\ threads[t].pc = "missed"
    /\ threads' = [threads EXCEPT ![t].pc = "sending", ![t].n = netCount + 1]
    /\ netCount' = netCount + 1
    /\ loginNet' = loginNet + 1
    /\ UNCHANGED <<heap, cache>>
    /\ ThreadFrame

\* RequestCache.send in thread t: the call of the transport returns or raises
ThreadReceive(t, o) ==
    /\ threads[t].pc = "sending"
    /\ threads' = IF o.raises
                  THEN [threads EXCEPT ![t].pc = "done", ![t].exc = TransportException]
                  ELSE [threads EXCEPT ![t].pc = "received",
                                       ![t].resp = Response(threads[t].n, o)]
    /\ UNCHANGED <<heap, cache, netCount, loginNet>>
    /\ ThreadFrame

\* RequestCache.send in thread t: self.cache[req] = the response
ThreadStore(t) ==
    /\ threads[t].pc = "received"
    /\ cache' = store(cache, threads[t].req, threads[t].resp)
    /\ threads' = [threads EXCEPT ![t].pc = "stored"]
    /\ UNCHANGED <<heap, netCount, loginNet>>
    /\ ThreadFrame

\* thread t: return self.cache[req], and login() classifies the status
ThreadReturn(t) ==
    /\ threads[t].pc \in {"stored", "hit"}
    /\ contains(cache, threads[t].req)
    /\ LET l == login(config, cache, threads[t].req, TRUE, TransportError, 0)
       IN  threads' = [threads EXCEPT ![t].pc = "done", ![t].resp = l.ret,
                                      ![t].exc = l.exc]
    /\ UNCHANGED <<heap, cache, netCount, loginNet>>
    /\ ThreadFrame

NextConc ==
    \/ \E t \in Threads : ThreadBuild(t)
    \/ \E t \in Threads : ThreadCheck(t)
    \/ \E t \in Threads : ThreadIssue(t)
    \/ \E t \in Threads, o \in TransportOutcomes : ThreadReceive(t, o)
    \/ \E t \in Threads : ThreadStore(t)
    \/ \E t \in Threads : ThreadReturn(t)

SpecConc == InitConc /\ [][NextConc]_vars

\* the threads that have called the transport
Callers == {t \in Threads : threads[t].n # 0}

\* C11: without a lock the test, the network call and the store of send are
\* separate steps: a thread is never kept from its test or from its network
\* call by another thread in flight, a request in flight has no entry yet, and
\* every thread that saw "not cached" makes a login network call of its own
\* (so two threads can be in a login network call at once).
C11_LoginNotAtomic ==
    /\ \A t \in Threads : threads[t].pc = "built" => ENABLED ThreadCheck(t)
    /\ \A t \in Threads : threads[t].pc = "missed" => ENABLED ThreadIssue(t)
    /\ \A t \in Threads :
          threads[t].pc \in {"missed", "sending", "received"}
          => ~contains(cache, threads[t].req)
    /\ loginNet = Cardinality(Callers)
    /\ \A t \in Threads :
          (threads[t].pc \in {"sending", "received", "stored"}) => t \in Callers

\* two threads are in a login network call at the same time, the cache empty
C11_Witness ==
    /\ cache = EmptyCache
    /\ loginNet = 2
    /\ \E t1, t2 \in Threads :
          /\ t1 # t2
          /\ threads[t1].pc = "sending"
          /\ threads[t2].pc = "sending"
          /\ heap[threads[t1].req] = heap[threads[t2].req]

(* ------------------------------- the URLs ------------------------------- *)

\* option and default suffix of the URLs that Kattis resolves through get_url
BasicUrls ==
    [login_url |-> <<"loginurl", "login">>,
     logout_url |-> <<"logouturl", "logout">>,
     submit_url |-> <<"submissionurl", "submit">>,
     submissions_url |-> <<"submissionsurl", "submissions">>,
     problems_url |-> <<"problemsurl", "problems">>,
     contests_url |-> <<"contestsurl", "contests">>,
     past_contests_url |-> <<"pastcontestsurl", "past-contests">>,
     challenge_url |-> <<"challengeurl", "challenge">>,
     users_url |-> <<"usersurl", "users">>,
     ranklist_url |-> <<"ranklisturl", "ranklist">>,
     affiliations_url |-> <<"affiliationsurl", "affiliations">>,
     countries_url |-> <<"countriesurl", "countries">>,
     authors_url |-> <<"authorsurl", "problem-authors">>,
     sources_url |-> <<"sourcesurl", "problem-sources">>,
     jobs_url |-> <<"jobsurl", "jobs">>,
     relay_url |-> <<"relayurl", "relay">>,
     languages_url |-> <<"languagesurl", "languages">>,
     info_url |-> <<"infourl", "info">>,
     policies_url |-> <<"policiesurl", "policies">>,
     search_url |-> <<"searchurl", "search">>,
     support_url |-> <<"supporturl", "supporter">>,
     request_affiliation_url |-> <<"requestaffiliationurl", "request-affiliation">>]

\* Kattis.<name>() for a URL of the site, called without a contest
basic_url(cfg, name) == get_url(cfg, BasicUrls[name][1], BasicUrls[name][2], "kattis", None)

\* Kattis.contests_url
contests_url(cfg) == get_url(cfg, "contestsurl", "contests", "kattis", None)

\* Kattis.contest_url
contest_url(cfg, contest) == contests_url(cfg) \o "/" \o contest

\* Kattis.submit_url
submit_url(cfg, contest) ==
    IF contest = None THEN get_url(cfg, "submissionurl", "submit", "kattis", None)
    ELSE contest_url(cfg, contest) \o "/submit"

\* submissions_url that answers with the URL of the site whatever the contest
submissions_url_of_site(cfg, contest) ==
    IF <<"kattis", "submissionsurl">> \in DOMAIN cfg
    THEN cfg[<<"kattis", "submissionsurl">>]
    ELSE "https://" \o cfg[<<"kattis", "hostname">>] \o "/submissions"

\* Kattis.submissions_url
submissions_url(cfg, contest) ==
    IF contest = None THEN get_url(cfg, "submissionsurl", "submissions", "kattis", None)
    ELSE contest_url(cfg, contest) \o "/submissions"

\* Kattis.problems_url
problems_url(cfg, contest) ==
    IF contest = None THEN get_url(cfg, "problemsurl", "problems", "kattis", None)
    ELSE contest_url(cfg, contest) \o "/problems"

\* Kattis.users_url
users_url(cfg) == get_url(cfg, "usersurl", "users", "kattis", None)

\* Kattis.submission_url
submission_url(cfg, submission, contest) ==
    submissions_url(cfg, contest) \o "/" \o submission

\* problem_url that puts no '/' before the name of the problem
problem_url_unseparated(cfg, problem, contest) == problems_url(cfg, contest) \o problem

\* Kattis.problem_url
problem_url(cfg, problem, contest) == problems_url(cfg, contest) \o "/" \o problem

\* Kattis.problem_statistics_url
problem_statistics_url(cfg, problem, contest) ==
    problem_url(cfg, problem, contest) \o "/statistics"

\* Kattis.user_url
user_url(cfg, user) ==
    users_url(cfg) \o "/" \o (IF user = None THEN username(cfg) ELSE user)

(* inputs *)

\* options of section kattis that a configuration file may set besides hostname
MaxOverrides == 2

Hostnames == {"open.kattis.com", "example.com"}

OverrideOptions == {"loginurl", "submissionurl", "submissionsurl", "problemsurl", "contestsurl"}

OverrideValue(option) ==
    IF option = "loginurl" THEN "https://x/custom-login" ELSE "https://x/my/" \o option

UrlConfigs ==
    {[k \in {<<"kattis", "hostname">>, <<"user", "username">>}
             \cup {<<"kattis", o>> : o \in ov} \cup {<<"user", c>> : c \in cr} |->
         IF k = <<"kattis", "hostname">> THEN h
         ELSE IF k = <<"user", "username">> THEN "bob"
         ELSE IF k = <<"user", "password">> THEN "pw"
         ELSE IF k = <<"user", "token">> THEN "tk"
         ELSE OverrideValue(k[2])] :
        h \in Hostnames,
        ov \in {x \in SUBSET OverrideOptions : Cardinality(x) <= MaxOverrides},
        cr \in SUBSET {"password", "token"}}

ContestIds == {"abc123"}

ProblemIds == {"2sum", "a b"}

\* the record of a call: function, arguments, value returned, exception raised
Call(fn, a1, a2, ret, exc) == [fn |-> fn, a1 |-> a1, a2 |-> a2, ret |-> ret, exc |-> exc]

InitUrl ==
    /\ config \in UrlConfigs
    /\ heap = [i \in {} |-> get_request("", None)]
    /\ held = {}
    /\ cache = EmptyCache
    /\ netCount = 0
    /\ loginNet = 0
    /\ invalidations = 0
    /\ loginFailed = FALSE
    /\ last = NoOp
    /\ prev = Strip(NoOp)
    /\ threads = [t \in Threads |-> IdleThread]
    /\ call = NoCall

\* a call changes nothing but the record of the call
PureFrame ==
    UNCHANGED <<config, heap, held, cache, netCount, loginNet, invalidations,
                loginFailed, last, prev, threads>>

\* kattis.login_url(), kattis.logout_url(), ... : a URL of the site
CallBasicUrl(name) ==
    /\ call' = Call(name, None, None, basic_url(config, name), NoExc)
    /\ PureFrame

\* kattis.get_url(option, default, hostname=hostname)
CallGetUrl(name, hostname) ==
    /\ call' = Call("get_url", name, hostname,
                    get_url(config, BasicUrls[name][1], BasicUrls[name][2], "kattis",
                            hostname), NoExc)
    /\ PureFrame

\* kattis.submit_url(contest), submissions_url(contest), problems_url(contest)
CallScopedUrl(fn, contest) ==
    /\ call' = Call(fn, contest, None,
                    CASE fn = "submit_url" -> submit_url(config, contest)
                      [] fn = "submissions_url" -> submissions_url(config, contest)
                      [] fn = "problems_url" -> problems_url(config, contest),
                    NoExc)
    /\ PureFrame

\* kattis.problem_url(id, contest), submission_url, problem_statistics_url,
\* contest_url(id), user_url(id)
CallEntityUrl(fn, id, contest) ==
    /\ fn \in {"contest_url", "user_url"} => contest = None
    /\ fn # "user_url" => id # None
    /\ call' = Call(fn, id, contest,
                    CASE fn = "problem_url" -> problem_url(config, id, contest)
                      [] fn = "submission_url" -> submission_url(config, id, contest)
                      [] fn = "problem_statistics_url" ->
                             problem_statistics_url(config, id, contest)
                      [] fn = "contest_url" -> contest_url(config, id)
                      [] fn = "user_url" -> user_url(config, id),
                    NoExc)
    /\ PureFrame

\* kattis.login_request
CallLoginRequest ==
    /\ call' = IF login_request_raises(config)
               THEN Call("login_request", None, None, None, ConfigError)
               ELSE Call("login_request", None, None, login_request(config), NoExc)
    /\ PureFrame

NextUrl ==
    \/ \E name \in DOMAIN BasicUrls : CallBasicUrl(name)
    \/ \E name \in DOMAIN BasicUrls, h \in Hostnames \cup {"other.host"} : CallGetUrl(name, h)
    \/ \E fn \in {"submit_url", "submissions_url", "problems_url"},
          c \in ContestIds \cup {None} : CallScopedUrl(fn, c)
    \/ \E fn \in {"problem_url", "submission_url", "problem_statistics_url",
                  "contest_url", "user_url"},
          id \in ProblemIds \cup ContestIds \cup {None},
          c \in ContestIds \cup {None} : CallEntityUrl(fn, id, c)
    \/ CallLoginRequest

SpecUrl == InitUrl /\ [][NextUrl]_vars

(* ----------------------------- claims: URLs ----------------------------- *)

\* the option that overrides the URL called name
OverrideOf(name) == <<"kattis", BasicUrls[name][1]>>

\* the configuration sets none of the options that override a URL
NoOverrides == \A o \in OverrideOptions : <<"kattis", o>> \notin DOMAIN config

\* C12: with loginurl = "https://x/custom-login" configured, login_url() is
\* exactly that string whatever the hostname; for every URL resolved through
\* get_url an option that is present is the URL, whole, also when the caller
\* passes a hostname.
C12_OverridePrecedence ==
    /\ (call.fn = "login_url" /\ <<"kattis", "loginurl">> \in DOMAIN config)
       => call.ret = "https://x/custom-login"
    /\ (call.fn \in DOMAIN BasicUrls /\ call.a1 = None /\ OverrideOf(call.fn) \in DOMAIN config)
       => call.ret = config[OverrideOf(call.fn)]
    /\ (call.fn = "get_url" /\ OverrideOf(call.a1) \in DOMAIN config)
       => call.ret = config[OverrideOf(call.a1)]

\* get_url was given a hostname and still answered with the configured login URL
C12_Witness ==
    /\ call.fn = "get_url"
    /\ call.a1 = "login_url"
    /\ call.a2 = "other.host"
    /\ config[<<"kattis", "hostname">>] = "example.com"
    /\ <<"kattis", "loginurl">> \in DOMAIN config
    /\ call.ret = "https://x/custom-login"

\* C13: with hostname = "example.com" and no override, problems_url() is
\* "https://example.com/problems" and problem_url("2sum") is
\* "https://example.com/problems/2sum"; without override every URL is
\* https://{hostname}/{suffix}, and the URL of a problem, submission, contest
\* or user is the parent URL, a '/', and the identifier as it is.
C13_DefaultSynthesis ==
    /\ (NoOverrides /\ config[<<"kattis", "hostname">>] = "example.com")
       => (/\ (call.fn = "problems_url" /\ call.a1 = None)
              => call.ret = "https://example.com/problems"
           /\ (call.fn = "problem_url" /\ call.a1 = "2sum" /\ call.a2 = None)
              => call.ret = "https://example.com/problems/2sum")
    /\ (call.fn \in DOMAIN BasicUrls /\ call.a1 = None
        /\ OverrideOf(call.fn) \notin DOMAIN config)
       => call.ret = "https://" \o config[<<"kattis", "hostname">>] \o "/"
                     \o BasicUrls[call.fn][2]
    /\ call.fn = "problem_url"
       => call.ret = problems_url(config, call.a2) \o "/" \o call.a1
    /\ call.fn = "submission_url"
       => call.ret = submissions_url(config, call.a2) \o "/" \o call.a1
    /\ call.fn = "contest_url"
       => call.ret = basic_url(config, "contests_url") \o "/" \o call.a1
    /\ (call.fn = "user_url" /\ call.a1 # None)
       => call.ret = basic_url(config, "users_url") \o "/" \o call.a1

\* problem_url("2sum") was called with only the hostname example.com configured
C13_Witness ==
    /\ NoOverrides
    /\ config[<<"kattis", "hostname">>] = "example.com"
    /\ call.fn = "problem_url"
    /\ call.a1 = "2sum"
    /\ call.a2 = None
    /\ call.ret = "https://example.com/problems/2sum"

\* the URL of the list of contests, as configured
ContestsBase ==
    IF <<"kattis", "contestsurl">> \in DOMAIN config
    THEN "https://x/my/contestsurl"
    ELSE "https://" \o config[<<"kattis", "hostname">>] \o "/contests"

\* the last part of the URL that fn gives for a contest
ScopedSuffix(fn) ==
    IF fn = "submit_url" THEN "submit"
    ELSE IF fn = "submissions_url" THEN "submissions" ELSE "problems"

\* C14: for a contest c, submit_url(c), submissions_url(c) and problems_url(c)
\* are "{contests_url()}/{c}/submit", ".../submissions" and ".../problems";
\* they are never the URL of the site, so submissionurl, submissionsurl and
\* problemsurl have no effect, while contestsurl has.
C14_ContestScoping ==
    (call.fn \in {"submit_url", "submissions_url", "problems_url"} /\ call.a1 # None)
    => (/\ call.ret = ContestsBase \o "/" \o call.a1 \o "/" \o ScopedSuffix(call.fn)
        /\ call.ret # basic_url(config, call.fn)
        /\ OverrideOf(call.fn) \in DOMAIN config => call.ret # config[OverrideOf(call.fn)])

\* submissions_url of a contest, with submissionsurl and contestsurl both set
C14_Witness ==
    /\ call.fn = "submissions_url"
    /\ call.a1 = "abc123"
    /\ <<"kattis", "submissionsurl">> \in DOMAIN config
    /\ <<"kattis", "contestsurl">> \in DOMAIN config
    /\ call.ret = "https://x/my/contestsurl/abc123/submissions"

(* ----------------------- loading the configuration ---------------------- *)

\* paths handed to Kattis(cfg_paths)
MaxPaths == 2

\* a path at which there is no file
NoFile == [exists |-> FALSE, sections |-> {}, opts |-> EmptyDict]

\* a configuration file: its sections and the options set in them
File(sections, opts) == [exists |-> TRUE, sections |-> sections, opts |-> opts]

\* the files a path may lead to
Files ==
    {File({"user", "kattis"},
          (<<"kattis", "hostname">> :> "example.com") @@ (<<"user", "username">> :> "bob")),
     File({"user", "kattis"},
          (<<"kattis", "loginurl">> :> "https://x/custom-login")
          @@ (<<"user", "username">> :> "bob")),
     File({"user"}, (<<"user", "username">> :> "bob") @@ (<<"user", "token">> :> "tk")),
     File({"kattis"}, (<<"kattis", "hostname">> :> "other.host")),
     File({}, EmptyDict)}

\* Kattis.DEFAULT_CONFIG: absent, or one of two files
DefaultFiles ==
    {NoFile,
     File({"kattis"}, (<<"kattis", "hostname">> :> "other.host")),
     File({"user"}, (<<"user", "username">> :> "root"))}

\* ConfigParser()
EmptyParser == [sections |-> {}, opts |-> EmptyDict]

\* ConfigParser.read of one path: a missing file is skipped, a file's sections
\* and options are added, its values replacing those read before
parser_read(cfg, f) ==
    IF f.exists
    THEN [sections |-> cfg.sections \cup f.sections, opts |-> f.opts @@ cfg.opts]
    ELSE cfg

\* ConfigParser.read of a list of paths, in order
RECURSIVE parser_read_all(_, _)
parser_read_all(cfg, paths) ==
    IF paths = <<>> THEN cfg
    ELSE parser_read_all(parser_read(cfg, Head(paths)), Tail(paths))

\* ConfigParser.has_option
has_option(cfg, section, option) ==
    section \in cfg.sections /\ <<section, option>> \in DOMAIN cfg.opts

\* the errors of loading
NoFileError == [cls |-> "ConfigError", msg |-> ""]

NoSectionError == [cls |-> "NoSectionError", msg |-> "kattis"]

\* Kattis._read_config: the parser it returns and the exception it raises
read_config(default, paths) ==
    LET cfg0 == IF default.exists THEN parser_read(EmptyParser, default) ELSE EmptyParser
        found == {i \in DOMAIN paths : paths[i].exists}
        cfg1 == parser_read_all(cfg0, paths)
    IN  IF found = {}
        THEN [cfg |-> EmptyParser, exc |-> NoFileError]
        ELSE IF ~has_option(cfg1, "kattis", "hostname")
        THEN IF "kattis" \notin cfg1.sections
             THEN [cfg |-> EmptyParser, exc |-> NoSectionError]
             ELSE [cfg |-> [cfg1 EXCEPT !.opts = (<<"kattis", "hostname">> :> "open.kattis.com")
                                               @@ cfg1.opts],
                   exc |-> NoExc]
        ELSE [cfg |-> cfg1, exc |-> NoExc]

\* the lists of paths of Kattis(cfg_paths)
PathLists == UNION {[1 .. n -> Files \cup {NoFile}] : n \in 0 .. MaxPaths}

\* before Kattis(...) is called there is no configuration
InitLoad ==
    /\ config = EmptyDict
    /\ heap = [i \in {} |-> get_request("", None)]
    /\ held = {}
    /\ cache = EmptyCache
    /\ netCount = 0
    /\ loginNet = 0
    /\ invalidations = 0
    /\ loginFailed = FALSE
    /\ last = NoOp
    /\ prev = Strip(NoOp)
    /\ threads = [t \in Threads |-> IdleThread]
    /\ call = NoCall

\* Kattis(cfg_paths), the file default being at Kattis.DEFAULT_CONFIG
LoadConfig(default, paths) ==
    /\ LET r == read_config(default, paths)
       IN  /\ call' = Call("_read_config", default, paths, r.cfg, r.exc)
           /\ config' = IF r.exc = NoExc THEN r.cfg.opts ELSE EmptyDict
    /\ UNCHANGED <<heap, held, cache, netCount, loginNet, invalidations,
                   loginFailed, last, prev, threads>>

\* kattis.get_url(...) reads self.config.get(section, 'hostname')
ReadHostname ==
    /\ call.fn = "_read_config"
    /\ call.exc = NoExc
    /\ call' = Call("hostname", None, None, config[<<"kattis", "hostname">>], NoExc)
    /\ PureFrame

NextLoad ==
    \/ \E d \in DefaultFiles, p \in PathLists : LoadConfig(d, p)
    \/ ReadHostname

SpecLoad == InitLoad /\ [][NextLoad]_vars

(* ----------------------- claims: the configuration ---------------------- *)

\* some file at the paths, or the default file, sets the hostname
HostnameDefined(default, paths) ==
    \/ <<"kattis", "hostname">> \in DOMAIN default.opts
    \/ \E i \in DOMAIN paths : <<"kattis", "hostname">> \in DOMAIN paths[i].opts

\* C15: loading fails, with a ConfigError, iff no file is found at the paths
\* supplied (also when the default file exists); after any other load the
\* hostname is readable, and is "open.kattis.com" when no file defines it,
\* whatever sections the files have.
C15_ConfigLoading ==
    call.fn = "_read_config"
    => LET found == \E i \in DOMAIN call.a2 : call.a2[i].exists
       IN  /\ ~found => call.exc = NoFileError
           /\ found
              => (/\ call.exc = NoExc
                  /\ <<"kattis", "hostname">> \in DOMAIN config
                  /\ ~HostnameDefined(call.a1, call.a2)
                     => config[<<"kattis", "hostname">>] = "open.kattis.com")

(* ------------------------------- entities ------------------------------- *)

\* longest identifier
MaxLen == 2

\* the entity classes
Kinds == {"Contest", "Submission", "Problem", "User"}

\* code points of the characters of identifiers: "a", "b"
Chars == {97, 98}

\* identifiers: strings as sequences of code points, the empty one included
Strings == UNION {[1 .. n -> Chars] : n \in 0 .. MaxLen}

\* Contest(kattis, id), ..., User(kattis, name)
Entity(kind, s) == [kind |-> kind, id |-> s]

Entities == {Entity(k, s) : k \in Kinds, s \in Strings}

\* __str__
str(e) == e.id

\* str.__lt__: code point by code point, a proper prefix first
RECURSIVE str_lt(_, _)
str_lt(s, t) ==
    IF t = <<>> THEN FALSE
    ELSE IF s = <<>> THEN TRUE
    ELSE IF Head(s) # Head(t) THEN Head(s) < Head(t)
    ELSE str_lt(Tail(s), Tail(t))

\* values of hash()
HashSpace == 5

\* hash(str): some function of the characters, not one to one
RECURSIVE str_hash(_)
str_hash(s) ==
    IF s = <<>> THEN 0 ELSE (3 * str_hash(Tail(s)) + Head(s)) % HashSpace

TypeError == [cls |-> "TypeError", msg |-> ""]

\* what an operator returns or raises
Returns(v) == [ret |-> v, exc |-> NoExc]

Raises(e) == [ret |-> None, exc |-> e]

\* __hash__
entity_hash(a) == Returns(str_hash(str(a)))

\* __eq__ that does not look at the class of the other
entity_eq_ignoring_kind(a, b) == Returns(str(a) = str(b))

\* __eq__
entity_eq(a, b) == Returns(b.kind = a.kind /\ str(a) = str(b))

\* __lt__
entity_lt(a, b) ==
    IF b.kind # a.kind THEN Raises(TypeError) ELSE Returns(str_lt(str(a), str(b)))

\* total_ordering: __le__ is __lt__ or __eq__
entity_le(a, b) ==
    LET lt == entity_lt(a, b)
    IN  IF lt.exc # NoExc THEN lt ELSE Returns(lt.ret \/ entity_eq(a, b).ret)

\* total_ordering: __gt__ is not __lt__ and __ne__
entity_gt(a, b) ==
    LET lt == entity_lt(a, b)
    IN  IF lt.exc # NoExc THEN lt ELSE Returns(~lt.ret /\ ~entity_eq(a, b).ret)

\* total_ordering: __ge__ is not __lt__
entity_ge(a, b) ==
    LET lt == entity_lt(a, b)
    IN  IF lt.exc # NoExc THEN lt ELSE Returns(~lt.ret)

InitEntity ==
    /\ config = BaseConfig
    /\ heap = [i \in {} |-> get_request("", None)]
    /\ held = {}
    /\ cache = EmptyCache
    /\ netCount = 0
    /\ loginNet = 0
    /\ invalidations = 0
    /\ loginFailed = FALSE
    /\ last = NoOp
    /\ prev = Strip(NoOp)
    /\ threads = [t \in Threads |-> IdleThread]
    /\ call = NoCall

\* hash(a)
CallHash(a) ==
    /\ call = NoCall
    /\ LET r == entity_hash(a) IN call' = Call("__hash__", a, None, r.ret, r.exc)
    /\ PureFrame

\* a == b
CallEq(a, b) ==
    /\ call = NoCall
    /\ LET r == entity_eq(a, b) IN call' = Call("__eq__", a, b, r.ret, r.exc)
    /\ PureFrame

\* a < b
CallLt(a, b) ==
    /\ call = NoCall
    /\ LET r == entity_lt(a, b) IN call' = Call("__lt__", a, b, r.ret, r.exc)
    /\ PureFrame

\* a <= b
CallLe(a, b) ==
    /\ call = NoCall
    /\ LET r == entity_le(a, b) IN call' = Call("__le__", a, b, r.ret, r.exc)
    /\ PureFrame

\* a > b
CallGt(a, b) ==
    /\ call = NoCall
    /\ LET r == entity_gt(a, b) IN call' = Call("__gt__", a, b, r.ret, r.exc)
    /\ PureFrame

\* a >= b
CallGe(a, b) ==
    /\ call = NoCall
    /\ LET r == entity_ge(a, b) IN call' = Call("__ge__", a, b, r.ret, r.exc)
    /\ PureFrame

\* the caller has used the value; the next expression is evaluated
Evaluated ==
    /\ call # NoCall
    /\ call' = NoCall
    /\ PureFrame

NextEntity ==
    \/ Evaluated
    \/ \E a \in Entities : CallHash(a)
    \/ \E a, b \in Entities : CallEq(a, b)
    \/ \E a, b \in Entities : CallLt(a, b)
    \/ \E a, b \in Entities : CallLe(a, b)
    \/ \E a, b \in Entities : CallGt(a, b)
    \/ \E a, b \in Entities : CallGe(a, b)

SpecEntity == InitEntity /\ [][NextEntity]_vars

(* --------------------------- claims: entities --------------------------- *)

\* C16: between two entities of one kind, ==, hash and <, <=, >, >= are those
\* of the identifier strings; entities of different kinds are never equal,
\* == returning false without an error; and <, <=, >, >= between entities of
\* different kinds raise a TypeError.
C16_EntityOrderAndEquality ==
    LET a == call.a1
        b == call.a2
        s == call.a1.id
        t == call.a2.id
    IN  /\ call.fn = "__hash__" => call.exc = NoExc /\ call.ret = str_hash(s)
        /\ call.fn = "__eq__"
           => call.exc = NoExc /\ call.ret = (a.kind = b.kind /\ s = t)
        /\ (call.fn \in {"__lt__", "__le__", "__gt__", "__ge__"} /\ a.kind # b.kind)
           => call.exc = TypeError
        /\ (call.fn \in {"__lt__", "__le__", "__gt__", "__ge__"} /\ a.kind = b.kind)
           => /\ call.exc = NoExc
              /\ call.fn = "__lt__" => call.ret = str_lt(s, t)
              /\ call.fn = "__le__" => call.ret = ~str_lt(t, s)
              /\ call.fn = "__gt__" => call.ret = str_lt(t, s)
              /\ call.fn = "__ge__" => call.ret = (str_lt(t, s) \/ s = t)

\* a Problem and a User of one name compared with ==
C16_Witness ==
    /\ call.fn = "__eq__"
    /\ call.a1 = Entity("Problem", <<97>>)
    /\ call.a2 = Entity("User", <<97>>)
    /\ call.ret = FALSE
    /\ call.exc = NoExc

(* ------------------------ claims: the login request --------------------- *)

\* C17: the login request is a POST to login_url(); its body holds the
\* configured username under "user" and the script marker, a password iff
\* user.password is configured, a token iff user.token is configured, each
\* independently of the other, and no other field.
C17_LoginRequestConstruction ==
    (call.fn = "login_request" /\ call.exc = NoExc)
    => LET data == call.ret.data
           hasPassword == <<"user", "password">> \in DOMAIN config
           hasToken == <<"user", "token">> \in DOMAIN config
       IN  /\ call.ret.method = "post"
           /\ call.ret.url = login_url(config)
           /\ {"user", "script"} \subseteq DOMAIN data
           /\ data["user"] = config[<<"user", "username">>]
           /\ data["script"] = "true"
           /\ "password" \in DOMAIN data <=> hasPassword
           /\ "token" \in DOMAIN data <=> hasToken
           /\ hasPassword => data["password"] = config[<<"user", "password">>]
           /\ hasToken => data["token"] = config[<<"user", "token">>]
           /\ DOMAIN data \subseteq {"user", "script", "password", "token"}

\* the request built when a password and a token are both configured
C17_Witness ==
    /\ call.fn = "login_request"
    /\ call.exc = NoExc
    /\ {<<"user", "password">>, <<"user", "token">>} \subseteq DOMAIN config
    /\ DOMAIN call.ret.data = {"user", "script", "password", "token"}

(* ---------------------- claims: the session, failures ------------------- *)

\* C18: a login() that fails because the status of the response is not 200
\* leaves the session unauthenticated: is_logged_in() is false afterwards, no
\* error response is stored in the cache, and the next login(use_cached=True)
\* or cookies access logs in over the network again.
C18_OnlyOkLoginAuthenticates ==
    /\ (last.op = "login" /\ last.exc # NoExc /\ last.exc # TransportException)
       => \A k \in DOMAIN cache : k \notin DOMAIN last.before => cache[k].status = 200
    /\ (Consecutive("login", "is_logged_in") /\ ~prev.ok) => ~last.bool
    /\ (Consecutive("login", "login") /\ ~prev.ok /\ ~NoCredentials /\ last.use_cached)
       => last.net = 1
    /\ (Consecutive("login", "cookies") /\ ~prev.ok /\ ~NoCredentials) => last.net = 1

\* C19: every get(url, ...) first obtains the session cookies through
\* login(use_cached=True): the GET request carries the cookies of a 200 login
\* response; when that login fails the caller gets its error, every network
\* call of the get is a call of login, none is made for the GET request, and
\* the cache gets no entry for a GET request.
C19_GetAuthenticatesFirst ==
    [][last'.op = "get"
       => /\ last'.bool
             => \E k \in DOMAIN cache' :
                   /\ heap'[k] = login_request(config)
                   /\ cache'[k].status = 200
                   /\ last'.fields.cookies = cache'[k].cookies
          /\ ~last'.bool
             => /\ last'.exc # NoExc
                /\ last'.exc = IF NoCredentials THEN ConfigError
                               ELSE IF last'.status = 0 THEN TransportException
                               ELSE LoginErrorFor(last'.status)
                /\ netCount' - netCount = loginNet' - loginNet
                /\ \A k \in DOMAIN cache' : heap'[k].method = "get" => k \in DOMAIN cache
                /\ last'.req \notin DOMAIN cache']_vars

\* a get whose login was answered 403
C19_Witness ==
    /\ last.op = "get"
    /\ ~last.bool
    /\ last.net = 1
    /\ last.status = 403
    /\ last.exc.cls = "Exception"

(* ------------------------- claims: frame effects ------------------------ *)

\* the answers to the login request of a get(): a 200 and a 403
FrameLoginOutcomes ==
    {[raises |-> FALSE, status |-> 200, cookies |-> "jarA"],
     [raises |-> FALSE, status |-> 403, cookies |-> None]}

\* a program that uses the RequestCache of its Kattis object directly as well
NextFrame ==
    \/ NextCache
    \/ Logout
    \/ \E url \in Urls, t1 \in FrameLoginOutcomes, t2 \in GetOutcomes :
          Get(url, TRUE, t1, t2)

SpecFrame == InitCache /\ [][NextFrame]_vars

\* C20: send(r, ...) and invalidate(r) leave the entry of every request other
\* than r as it was; invalidate(r) of an r without entry leaves the cache as it
\* was, and invalidate never raises; `r in cache` leaves the cache as it was;
\* an entry stays, with its response, until invalidate(r) or a send(r,
\* use_cached=False) of its own request; logout() takes away no entry other
\* than one of the login request, cached GET responses stay.
C20_OperationsTouchOwnKey ==
    [][/\ last'.op \in {"send", "invalidate"}
          => \A k \in (DOMAIN cache \cup DOMAIN cache') \ {last'.req} :
                /\ k \in DOMAIN cache
                /\ k \in DOMAIN cache'
                /\ cache'[k] = cache[k]
       /\ last'.op = "invalidate"
          => /\ last'.exc = NoExc
             /\ last'.req \notin DOMAIN cache => cache' = cache
       /\ last'.op = "contains" => cache' = cache
       /\ \A k \in DOMAIN cache :
             (k \notin DOMAIN cache' \/ cache'[k] # cache[k])
             => /\ last'.req = k
                /\ \/ last'.op = "invalidate"
                   \/ last'.op = "send" /\ ~last'.use_cached
       /\ last'.op = "logout"
          => \A k \in DOMAIN cache :
                heap[k] # login_request(config)
                => (k \in DOMAIN cache' /\ cache'[k] = cache[k])]_vars

\* logout() has run with a GET response in the cache, and the response is there
C20_Witness ==
    /\ last.op = "logout"
    /\ last.exc = NoExc
    /\ \E k \in DOMAIN last.before :
          /\ k \in DOMAIN cache
          /\ heap[k].method = "get"
          /\ cache[k] = last.before[k]

====
